---- MODULE Spec2Model ----
(***************************************************************************)
(* Model of the GitHub Action triage agent: the command line, the branch   *)
(* scan in batches of three, the failure detector, the remediation         *)
(* dispatch (analyze / direct / via fix branch), the oracle message loop   *)
(* and the PR reconciliation.                                              *)
(*                                                                         *)
(* Strings that the program builds by concatenation are sequences of       *)
(* string pieces: the branch "main" is <<"main">>, the empty string is     *)
(* <<>> (falsy in the source), and a template literal is the               *)
(* concatenation of its pieces.                                            *)
(***************************************************************************)
EXTENDS Integers, Sequences, FiniteSets, TLC

VARIABLES
    args,        \* the command line: [repo, mode, branch]
    options,     \* TriageOptions returned by parseCliArgs
    pc,          \* position of main()
    exitCode,    \* -1 while running, then 0 or 1
    branches,    \* main: branches
    i,           \* main: loop index of the batch loop (1-based)
    inflight,    \* indices of branches whose detector call has not returned
    latest,      \* what the gateway answered per branch ("unasked" before)
    failures,    \* main: failures (the shared collection)
    report,      \* list mode: the branches printed as FAILED
    failure,     \* main: the failure of the target branch
    logs,        \* main: logs
    tmpl,        \* template files read so far: "unread", "present", "absent"
    path,        \* amp methods main has called, in order
    branchClass, \* result of isMainBranch(failure.branch), "none" before
    fixBranch,   \* triageOnMain: fixBranchName (<<>> when none generated)
    prompt,      \* prompt handed to execute()
    env,         \* ampOptions.env handed to execute()
    stream,      \* the messages the oracle yields for this invocation
    pos,         \* next message of the stream to consume
    sessionId,   \* runAmp*: sessionId
    acc,         \* runAmpAnalysis: rootCause / runAmpRemediation: remediationResult
    termErr,     \* an error-flagged result message was consumed
    caught,      \* the catch block of runAmp* built the outcome
    analysis,    \* the AmpAnalysis returned to main
    existingPR,  \* handlePRForBranch: existingPR (0 for null)
    prCalls,     \* pulls.create / issues.createComment calls, in order
    calls,       \* number of calls per remote operation
    gw,          \* what the gateway answered to the other calls
    summary,     \* the summary main printed
    probe        \* input and result of a function checked on its own

cliVars    == <<args, options, probe>>
scanVars   == <<branches, i, inflight, latest, failures, report>>
dispVars   == <<failure, logs, tmpl, path, branchClass, fixBranch, prompt, env>>
oracleVars == <<stream, pos, sessionId, acc, termErr, caught, analysis>>
prVars     == <<existingPR, prCalls>>
vars == <<args, options, pc, exitCode, branches, i, inflight, latest, failures,
          report, failure, logs, tmpl, path, branchClass, fixBranch, prompt, env,
          stream, pos, sessionId, acc, termErr, caught, analysis, existingPR,
          prCalls, calls, gw, summary, probe>>

-----------------------------------------------------------------------------
(* Bounds of the model *)

MaxBranches == 4
MaxMsgs == 2
MaxRuns == 2
MaxFilters == 2
MaxJobs == 3

-----------------------------------------------------------------------------
(* Values *)

Empty == <<>>

\* Branch names of the repository, in the order the gateway lists them.
RepoOrder == << <<"main">>, <<"feature/x">>, <<"master">>, <<"dev">>, <<"default">> >>
BranchNames == { RepoOrder[k] : k \in 1..Len(RepoOrder) }
\* The default branches the gateway can report: a protected name and two others.
DefaultBranches == { <<"main">>, <<"feature/x">>, <<"dev">> }

\* The branch lists the gateway can return: the sub-lists of RepoOrder.
RECURSIVE Pick(_, _)
Pick(s, keep) ==
    IF s = <<>> THEN <<>>
    ELSE IF Len(s) \in keep
         THEN Pick(SubSeq(s, 1, Len(s) - 1), keep) \o <<s[Len(s)]>>
         ELSE Pick(SubSeq(s, 1, Len(s) - 1), keep)
BranchLists ==
    { Pick(RepoOrder, keep) : keep \in
        { k \in SUBSET (1..Len(RepoOrder)) : Cardinality(k) <= MaxBranches } }

Conclusions == {"success", "failure", "timed_out", "action_required", "cancelled"}
RunResponses == {"error", "none"} \cup Conclusions

Timestamps == {"1700000000001", "1700000000002"}
SessionIds == {"T-1"}
PRLists == { <<>>, <<41>>, <<42, 41>> }

NoFailure == [branch |-> Empty, conclusion |-> "none"]
NoAnalysis == [branch |-> Empty, rootCause |-> Empty, suggestedFix |-> Empty,
               ampThreadUrl |-> Empty]
NoPrompt == [kind |-> "none", checkout |-> Empty, push |-> Empty]
NoEnv == [BRANCH_NAME |-> Empty, FIX_BRANCH |-> Empty]
NoOptions == [owner |-> Empty, repo |-> Empty, mode |-> "", branches |-> <<>>]
NoSummary == [processed |-> -1, successful |-> -1, failed |-> -1]

Templates == {"pr-comment-automated-fix.md", "pr-branch-fix.md", "pr-main-branch-fix.md"}

\* Messages of the oracle's stream; "throw" stands for the iterator rejecting.
Messages ==
    [type : {"init"}, session_id : SessionIds, text : {Empty}, is_error : {FALSE}]
    \cup [type : {"assistant"}, session_id : {""}, text : {Empty, <<"text">>}, is_error : {FALSE}]
    \cup [type : {"result"}, session_id : {""}, text : {Empty, <<"summary">>, <<"fixed the failed Error check">>},
          is_error : {FALSE}]
    \cup [type : {"result"}, session_id : {""}, text : {<<"boom">>}, is_error : {TRUE}]
    \cup [type : {"throw"}, session_id : {""}, text : {<<"network">>}, is_error : {FALSE}]

RECURSIVE SeqsUpTo(_, _)
SeqsUpTo(S, n) ==
    IF n = 0 THEN { <<>> }
    ELSE LET shorter == SeqsUpTo(S, n - 1)
         IN shorter \cup { Append(s, x) : s \in { t \in shorter : Len(t) = n - 1 }, x \in S }
Streams == SeqsUpTo(Messages, MaxMsgs)

Min(a, b) == IF a < b THEN a ELSE b

Includes(s, piece) == \E k \in 1..Len(s) : s[k] = piece

-----------------------------------------------------------------------------
(* Command line: parseCliArgs *)

RepoArgs == { <<"owner", "/", "repo">>, <<"owner", "/">>, <<"ownerrepo">>, Empty }
ModeArgs == {"list", "analyze", "triage", "bogus", ""}
BranchArgs == {Empty} \cup BranchNames

\* Variant: the mode is not validated
ParseThrows_NoModeCheck(a) == a.repo = Empty \/ ~Includes(a.repo, "/")

\* The two input errors parseCliArgs throws on.
ParseThrows(a) ==
    \/ a.repo = Empty \/ ~Includes(a.repo, "/")
    \/ a.mode = "" \/ a.mode \notin {"list", "analyze", "triage"}

\* The branches field: ['*'] in list mode, else the given branch or the marker.
ParsedBranches(a) ==
    IF a.mode = "list" THEN << <<"*">> >>
    ELSE IF a.branch # Empty THEN << a.branch >> ELSE << <<"default">> >>

\* repoArg.split('/'): the parts between the slashes
RECURSIVE SplitSlash(_)
SplitSlash(s) ==
    IF ~Includes(s, "/") THEN << s >>
    ELSE LET k == CHOOSE j \in 1..Len(s) : s[j] = "/" /\ \A h \in 1..(j - 1) : s[h] # "/"
         IN << SubSeq(s, 1, k - 1) >> \o SplitSlash(SubSeq(s, k + 1, Len(s)))

\* The options returned when nothing was thrown; [owner, repo] are the first
\* two parts of the repository argument.
ParseCliArgs(a) ==
    LET parts == SplitSlash(a.repo)
    IN [owner |-> parts[1], repo |-> parts[2], mode |-> a.mode,
        branches |-> ParsedBranches(a)]

InSeq(s, x) == \E k \in 1..Len(s) : s[k] = x

Bump(op) == [calls EXCEPT ![op] = @ + 1]

-----------------------------------------------------------------------------
(* main: argument parsing and branch resolution *)

\* process.exit(1) from main's catch block
Exit1 == pc' = "done" /\ exitCode' = 1
\* main returns
Exit0 == pc' = "done" /\ exitCode' = 0

\* main, up to the first await: parseCliArgs, then listBranches or
\* getDefaultBranch is called, or the given branch is taken as it is.
Start ==
    /\ pc = "start"
    /\ IF ParseThrows(args)
       THEN /\ Exit1
            /\ UNCHANGED <<options, branches, i, calls>>
       ELSE /\ options' = ParseCliArgs(args)
            /\ exitCode' = exitCode
            /\ IF options'.mode = "list"
               THEN /\ pc' = "listBranches"
                    /\ calls' = Bump("listBranches")
                    /\ UNCHANGED <<branches, i>>
               ELSE IF InSeq(options'.branches, <<"default">>)
               THEN /\ pc' = "getDefaultBranch"
                    /\ calls' = Bump("getDefaultBranch")
                    /\ UNCHANGED <<branches, i>>
               ELSE /\ branches' = options'.branches
                    /\ i' = 1
                    /\ pc' = "scan"
                    /\ UNCHANGED calls
    /\ UNCHANGED <<args, probe, inflight, latest, failures, report, gw, summary>>
    /\ UNCHANGED <<dispVars, oracleVars, prVars>>

\* pattern.replace(/\*/g, '.*').replace(/\?/g, '.'): the source text of the
\* regular expression; every other piece of the pattern is copied unescaped.
RECURSIVE RegexSource(_)
RegexSource(pattern) ==
    IF pattern = <<>> THEN <<>>
    ELSE (IF Head(pattern) = "*" THEN <<".", "*">>
          ELSE IF Head(pattern) = "?" THEN <<".">>
          ELSE <<Head(pattern)>>) \o RegexSource(Tail(pattern))

\* new RegExp(`^${re}$`).test(str): "." matches any one piece, an atom
\* followed by "*" any number of repetitions, any other piece itself.
AtomMatches(atom, c) == atom = "." \/ atom = c
RECURSIVE RegexTest(_, _)
RegexTest(re, str) ==
    IF re = <<>> THEN str = <<>>
    ELSE IF Len(re) >= 2 /\ re[2] = "*"
         THEN \/ RegexTest(SubSeq(re, 3, Len(re)), str)
              \/ (str # <<>> /\ AtomMatches(re[1], Head(str)) /\ RegexTest(re, Tail(str)))
         ELSE str # <<>> /\ AtomMatches(re[1], Head(str)) /\ RegexTest(Tail(re), Tail(str))

\* GitHubClient.matchesWildcard
matchesWildcard(str, pattern) == RegexTest(RegexSource(pattern), str)

\* Variant: the listing keeps main and master whatever the filters are
ListBranches_MainOnly(ok, branchNames, filters) ==
    IF ~ok THEN <<>>
    ELSE SelectSeq(branchNames, LAMBDA name : name = <<"main">> \/ name = <<"master">>)

\* Variant: a failed listing falls back to the branch main
ListBranches_FallbackMain(ok, branchNames, filters) ==
    IF ~ok THEN << <<"main">> >> ELSE branchNames

\* GitHubClient.listBranches: [] when the listing call fails; main and master
\* for no filters; every name for the filters ['*']; otherwise the names equal
\* to a filter or matched by a filter that includes '*'.
ListBranches(ok, branchNames, filters) ==
    IF ~ok THEN <<>>
    ELSE IF Len(filters) = 0
         THEN SelectSeq(branchNames, LAMBDA name : name = <<"main">> \/ name = <<"master">>)
    ELSE IF Len(filters) = 1 /\ filters[1] = <<"*">>
         THEN branchNames
    ELSE SelectSeq(branchNames, LAMBDA name :
            \E k \in 1..Len(filters) :
                \/ filters[k] = name
                \/ (Includes(filters[k], "*") /\ matchesWildcard(name, filters[k])))

\* The gateway answers for a repository that has an owner and a name; a
\* request whose path has an empty owner or name is an error.
RepoFound == options.owner # Empty /\ options.repo # Empty

\* the listing returns; main stops when no branch was found
ListBranchesReturn ==
    /\ pc = "listBranches"
    /\ \E ok \in BOOLEAN, names \in BranchLists :
        /\ (~RepoFound => ~ok)
        /\ (~ok => names = <<>>)
        /\ gw' = [gw EXCEPT !.list = IF ok THEN "ok" ELSE "error", !.listed = names]
        /\ branches' = ListBranches(ok, names, << <<"*">> >>)
        /\ IF Len(branches') = 0
           THEN Exit0 /\ i' = i
           ELSE pc' = "scan" /\ i' = 1 /\ exitCode' = exitCode
    /\ UNCHANGED <<cliVars, inflight, latest, failures, report, calls, summary>>
    /\ UNCHANGED <<dispVars, oracleVars, prVars>>

\* Variant: the fallback is master
GetDefaultBranch_FallbackMaster(ok, name) == IF ok THEN name ELSE <<"master">>

\* GitHubClient.getDefaultBranch: the repository's default branch, "main" on error
GetDefaultBranch(ok, name) == IF ok THEN name ELSE <<"main">>

GetDefaultBranchReturn ==
    /\ pc = "getDefaultBranch"
    /\ \E ok \in BOOLEAN, name \in DefaultBranches :
        /\ (~RepoFound => ~ok)
        /\ (~ok => name = <<"main">>)
        /\ gw' = [gw EXCEPT !.default = IF ok THEN "ok" ELSE "error",
                             !.defaultBranch = IF ok THEN name ELSE Empty]
        /\ branches' = << GetDefaultBranch(ok, name) >>
    /\ i' = 1
    /\ pc' = "scan"
    /\ UNCHANGED <<cliVars, exitCode, inflight, latest, failures, report, calls, summary>>
    /\ UNCHANGED <<dispVars, oracleVars, prVars>>

-----------------------------------------------------------------------------
(* main: the scan, in batches of `concurrency` branches *)

concurrency == 3

\* GitHubClient.getLatestFailedRun: a record when the most recent completed run
\* has one of the three failing conclusions; null (NoFailure) when there is no
\* completed run, for any other conclusion, and when the call throws.
FailingConclusions == {"failure", "timed_out", "action_required"}
\* Variant: a failed call is reported as a failing run
GetLatestFailedRun_ErrorAsFailure(branch, resp) ==
    IF resp \in {"failure", "timed_out", "action_required", "error"}
    THEN [branch |-> branch, conclusion |-> resp]
    ELSE NoFailure

\* Variant: action_required is not counted as failing
GetLatestFailedRun_TwoConclusions(branch, resp) ==
    IF resp \in {"failure", "timed_out"}
    THEN [branch |-> branch, conclusion |-> resp]
    ELSE NoFailure

GetLatestFailedRun(branch, resp) ==
    IF resp \in FailingConclusions
    THEN [branch |-> branch, conclusion |-> resp]
    ELSE NoFailure

\* The completed runs of a branch at the gateway, most recent first
RunHistories == SeqsUpTo(Conclusions, MaxRuns)

\* Variant: the fetch looks through the history for a failing run
FetchLatestRun_FirstFailing(ok, runs) ==
    IF ~ok THEN "error"
    ELSE IF \E k \in 1..Len(runs) : runs[k] \in FailingConclusions
    THEN runs[CHOOSE k \in 1..Len(runs) :
                /\ runs[k] \in FailingConclusions
                /\ \A j \in 1..(k - 1) : runs[j] \notin FailingConclusions]
    ELSE IF Len(runs) = 0 THEN "none" ELSE runs[1]

\* getLatestFailedRun, the request: listWorkflowRunsForRepo with status
\* 'completed' and per_page 1, of which workflow_runs[0] is read; "none" for an
\* empty page, "error" when the call throws.
FetchLatestRun(ok, runs) ==
    IF ~ok THEN "error"
    ELSE LET page == SubSeq(runs, 1, Min(1, Len(runs))) IN
         IF Len(page) = 0 THEN "none" ELSE page[1]

\* Variant: the record is put in front of the collection
Push_Front(fs, f) == <<f>> \o fs

\* Variant: the append works on a stale copy and drops what was appended since
Push_Stale(fs, f) == <<f>>

\* failures.push(failure)
Push(fs, f) == Append(fs, f)

\* Variant: the loop steps over one branch more than the chunk holds
NextChunkStart_StepsTooFar(j) == j + concurrency + 1

\* i += concurrency
NextChunkStart(j) == j + concurrency

\* Variant: every remaining branch is started at once
StartBatch_NoSlice ==
    /\ pc = "scan"
    /\ inflight = {}
    /\ i <= Len(branches)
    /\ inflight' = i .. Len(branches)
    /\ calls' = [calls EXCEPT !["getLatestFailedRun"] = @ + Cardinality(inflight')]
    /\ UNCHANGED <<cliVars, pc, exitCode, branches, i, latest, failures, report, gw, summary>>
    /\ UNCHANGED <<dispVars, oracleVars, prVars>>

\* One iteration of the for loop up to `await Promise.all`: the chunk is cut
\* and every task of it issues its detector call.
StartBatch ==
    /\ pc = "scan"
    /\ inflight = {}
    /\ i <= Len(branches)
    /\ inflight' = i .. Min(i + concurrency - 1, Len(branches))
    /\ calls' = [calls EXCEPT !["getLatestFailedRun"] = @ + Cardinality(inflight')]
    /\ UNCHANGED <<cliVars, pc, exitCode, branches, i, latest, failures, report, gw, summary>>
    /\ UNCHANGED <<dispVars, oracleVars, prVars>>

\* Variant: an error of the detector call rejects Promise.all and ends main
DetectReturn_AbortOnError(k) ==
    /\ pc = "scan"
    /\ k \in inflight
    /\ \E resp \in RunResponses :
        LET f == GetLatestFailedRun(branches[k], resp) IN
        /\ (~RepoFound => resp = "error")
        /\ latest' = [latest EXCEPT ![branches[k]] = resp]
        /\ failures' = IF f # NoFailure THEN Push(failures, f) ELSE failures
        /\ IF resp = "error" THEN Exit1 ELSE UNCHANGED <<pc, exitCode>>
    /\ inflight' = inflight \ {k}
    /\ i' = IF inflight' = {} THEN i + concurrency ELSE i
    /\ UNCHANGED <<cliVars, branches, report, calls, gw, summary>>
    /\ UNCHANGED <<dispVars, oracleVars, prVars>>

\* The detector call of one task of the chunk returns; the task appends its
\* failure, if any. When it is the last of the chunk, Promise.all resolves and
\* the loop moves to the next chunk.
DetectReturn(k) ==
    /\ pc = "scan"
    /\ k \in inflight
    /\ \E resp \in RunResponses :
        LET f == GetLatestFailedRun(branches[k], resp) IN
        /\ (~RepoFound => resp = "error")
        /\ latest' = [latest EXCEPT ![branches[k]] = resp]
        /\ failures' = IF f # NoFailure THEN Push(failures, f) ELSE failures
    /\ inflight' = inflight \ {k}
    /\ i' = IF inflight' = {} THEN NextChunkStart(i) ELSE i
    /\ UNCHANGED <<cliVars, pc, exitCode, branches, report, calls, gw, summary>>
    /\ UNCHANGED <<dispVars, oracleVars, prVars>>

\* failures.find(f => f.branch === targetBranch)
Find(fs, targetBranch) ==
    IF \E k \in 1..Len(fs) : fs[k].branch = targetBranch
    THEN fs[CHOOSE k \in 1..Len(fs) :
                /\ fs[k].branch = targetBranch
                /\ \A j \in 1..(k - 1) : fs[j].branch # targetBranch]
    ELSE NoFailure

\* Variant: the dispatcher is entered without downloading the logs
AfterScan_NoLogs ==
    /\ pc = "scan"
    /\ inflight = {}
    /\ i > Len(branches)
    /\ IF Len(failures) = 0
       THEN Exit0 /\ UNCHANGED <<report, failure, calls>>
       ELSE IF options.mode = "list"
       THEN /\ report' = [k \in 1..Len(failures) |-> failures[k].branch]
            /\ Exit0
            /\ UNCHANGED <<failure, calls>>
       ELSE LET f == Find(failures, branches[1]) IN
            IF f = NoFailure
            THEN Exit0 /\ UNCHANGED <<report, failure, calls>>
            ELSE /\ failure' = f
                 /\ pc' = "dispatch"
                 /\ calls' = calls
                 /\ UNCHANGED <<report, exitCode>>
    /\ UNCHANGED <<cliVars, branches, i, inflight, latest, failures, gw, summary>>
    /\ UNCHANGED <<logs, tmpl, path, branchClass, fixBranch, prompt, env>>
    /\ UNCHANGED <<oracleVars, prVars>>

\* Variant: list mode downloads the logs of what it reports
AfterScan_ListDownloads ==
    /\ pc = "scan"
    /\ inflight = {}
    /\ i > Len(branches)
    /\ IF Len(failures) = 0
       THEN Exit0 /\ UNCHANGED <<report, failure, calls>>
       ELSE IF options.mode = "list"
       THEN /\ report' = [k \in 1..Len(failures) |-> failures[k].branch]
            /\ pc' = "getWorkflowLogs"
            /\ calls' = Bump("getWorkflowLogs")
            /\ UNCHANGED <<failure, exitCode>>
       ELSE LET f == Find(failures, branches[1]) IN
            IF f = NoFailure
            THEN Exit0 /\ UNCHANGED <<report, failure, calls>>
            ELSE /\ failure' = f
                 /\ pc' = "getWorkflowLogs"
                 /\ calls' = Bump("getWorkflowLogs")
                 /\ UNCHANGED <<report, exitCode>>
    /\ UNCHANGED <<cliVars, branches, i, inflight, latest, failures, gw, summary>>
    /\ UNCHANGED <<logs, tmpl, path, branchClass, fixBranch, prompt, env>>
    /\ UNCHANGED <<oracleVars, prVars>>

\* After the loop: nothing failed, or list mode prints the failures, or the
\* failure of the target branch is looked up and its logs are requested.
AfterScan ==
    /\ pc = "scan"
    /\ inflight = {}
    /\ i > Len(branches)
    /\ IF Len(failures) = 0
       THEN Exit0 /\ UNCHANGED <<report, failure, calls>>
       ELSE IF options.mode = "list"
       THEN /\ report' = [k \in 1..Len(failures) |-> failures[k].branch]
            /\ Exit0
            /\ UNCHANGED <<failure, calls>>
       ELSE LET f == Find(failures, branches[1]) IN
            IF f = NoFailure
            THEN Exit0 /\ UNCHANGED <<report, failure, calls>>
            ELSE /\ failure' = f
                 /\ pc' = "getWorkflowLogs"
                 /\ calls' = Bump("getWorkflowLogs")
                 /\ UNCHANGED <<report, exitCode>>
    /\ UNCHANGED <<cliVars, branches, i, inflight, latest, failures, gw, summary>>
    /\ UNCHANGED <<logs, tmpl, path, branchClass, fixBranch, prompt, env>>
    /\ UNCHANGED <<oracleVars, prVars>>

\* The jobs of a run as listJobsForWorkflowRun returns them; `fetch` is what
\* downloadJobLogsForWorkflowRun gives for the job: its log text, or "error".
Jobs ==
    [name : {"build", "test"}, conclusion : {"failure", "success", "cancelled"},
     fetch : {"error", "log"}]

\* Variant: a job whose download fails gets no section
JobSection_NoPlaceholder(job) ==
    IF job.conclusion = "failure" /\ job.fetch # "error"
    THEN <<"\n=== Job: ", job.name, " ===\n", job.fetch>>
    ELSE <<>>

\* What one iteration of the loop over the jobs adds to allLogs
JobSection(job) ==
    IF job.conclusion = "failure"
    THEN IF job.fetch # "error"
         THEN <<"\n=== Job: ", job.name, " ===\n", job.fetch>>
         ELSE <<"\n=== Job: ", job.name, " ===\n", "Logs unavailable\n">>
    ELSE <<>>

RECURSIVE AllLogs(_)
AllLogs(jobs) ==
    IF jobs = <<>> THEN <<>>
    ELSE AllLogs(SubSeq(jobs, 1, Len(jobs) - 1)) \o JobSection(jobs[Len(jobs)])

\* GitHubClient.getWorkflowLogs: the sections of the failed jobs, or the fixed
\* text when listing the jobs fails. It never throws.
GetWorkflowLogs(listOk, jobs) ==
    IF listOk THEN AllLogs(jobs) ELSE <<"Could not retrieve logs">>

\* The log texts of the runs of this model: one failed job, or no job list
LogTexts ==
    { GetWorkflowLogs(TRUE, <<[name |-> "build", conclusion |-> "failure", fetch |-> "log"]>>),
      GetWorkflowLogs(FALSE, <<>>) }

GetWorkflowLogsReturn ==
    /\ pc = "getWorkflowLogs"
    /\ \E text \in LogTexts : logs' = text
    /\ pc' = "dispatch"
    /\ UNCHANGED <<cliVars, exitCode, scanVars, calls, gw, summary>>
    /\ UNCHANGED <<failure, tmpl, path, branchClass, fixBranch, prompt, env>>
    /\ UNCHANGED <<oracleVars, prVars>>

-----------------------------------------------------------------------------
(* AmpClient: prompts, environment, outcome records *)

\* Variants of isMainBranch: master forgotten; the default branch counted in
isMainBranch_OnlyMain(branch) == branch = <<"main">>
isMainBranch_OrDefault(branch) ==
    branch = <<"main">> \/ branch = <<"master">> \/ branch = gw.defaultBranch

\* main: isMainBranch
isMainBranch(branch) == branch = <<"main">> \/ branch = <<"master">>

\* triageOnMain: `fix/triage-${failure.branch}-${Date.now()}`
FixBranchName(branch, now) == <<"fix/triage-">> \o branch \o <<"-", now>>

\* What the three prompts tell the oracle to check out and to push to.
\* Variant: the analysis prompt asks for a push
AnalyzePrompt_Pushing(branch) ==
    [kind |-> "analyze", checkout |-> branch, push |-> branch]
AnalyzePrompt(branch) ==
    [kind |-> "analyze", checkout |-> Empty, push |-> Empty]
\* Variant: the direct prompt names no push target
TriageOnBranchPrompt_NoPush(branch) ==
    [kind |-> "triage", checkout |-> branch, push |-> Empty]
TriageOnBranchPrompt(branch) ==
    [kind |-> "triage", checkout |-> branch, push |-> branch]
\* Variant: the protected prompt pushes to the source branch
TriageOnMainPrompt_PushSource(branch, fixBranchName) ==
    [kind |-> "triage-pr", checkout |-> branch, push |-> branch]
TriageOnMainPrompt(branch, fixBranchName) ==
    [kind |-> "triage-pr", checkout |-> branch, push |-> fixBranchName]

\* Variant: FIX_BRANCH is always a fix branch name
RemediationEnv_FixAlways(branch, fixBranchName) ==
    [BRANCH_NAME |-> branch,
     FIX_BRANCH |-> IF fixBranchName # Empty THEN fixBranchName
                    ELSE <<"fix/triage-">> \o branch]

\* runAmpRemediation: the env of ampOptions; FIX_BRANCH is fixBranch || failure.branch
RemediationEnv(branch, fixBranchName) ==
    [BRANCH_NAME |-> branch,
     FIX_BRANCH |-> IF fixBranchName # Empty THEN fixBranchName ELSE branch]

\* ampThreadUrl of both outcome records
ThreadUrl(sid) == IF sid # "" THEN <<"https://ampcode.com/threads/", sid>> ELSE Empty

\* runAmpAnalysis: the record returned after the loop
AnalysisReturn(branch, rootCause, sid) ==
    [branch |-> branch,
     rootCause |-> IF rootCause # Empty THEN rootCause ELSE <<"Analysis completed">>,
     suggestedFix |-> <<"See analysis above">>,
     ampThreadUrl |-> ThreadUrl(sid)]

\* runAmpAnalysis: the record returned by the catch block
AnalysisCatch(branch, error) ==
    [branch |-> branch,
     rootCause |-> <<"Error during analysis: ">> \o error,
     suggestedFix |-> <<"Unable to analyze - manual investigation required">>,
     ampThreadUrl |-> Empty]

\* runAmpRemediation: the record returned after the loop
RemediationReturn(branch, remediationResult, sid) ==
    [branch |-> branch,
     rootCause |-> <<"Remediation completed">>,
     suggestedFix |-> IF remediationResult # Empty THEN remediationResult
                      ELSE <<"Fixes applied successfully">>,
     ampThreadUrl |-> ThreadUrl(sid)]

\* Variant: the catch block reports success
RemediationCatch_Silent(branch, error) ==
    [branch |-> branch,
     rootCause |-> <<"Remediation completed">>,
     suggestedFix |-> <<"Fixes applied successfully">>,
     ampThreadUrl |-> Empty]

\* runAmpRemediation: the record returned by the catch block
RemediationCatch(branch, error) ==
    [branch |-> branch,
     rootCause |-> <<"Remediation failed: ">> \o error,
     suggestedFix |-> <<"Manual intervention required">>,
     ampThreadUrl |-> Empty]

\* `${error}` of the Error thrown on an error-flagged result, and of a rejection
AnalysisError(m) ==
    IF m.type = "result" THEN <<"Error: ", "Amp analysis failed: ">> \o m.text
    ELSE <<"Error: ">> \o m.text
RemediationError(m) ==
    IF m.type = "result" THEN <<"Error: ", "Amp remediation failed: ">> \o m.text
    ELSE <<"Error: ">> \o m.text

\* One turn of the `for await` loop of runAmpAnalysis on message m:
\* the new sessionId and rootCause, and how the loop goes on.
AnalysisStep(sid, rootCause, m) ==
    IF m.type = "init"
    THEN [sid |-> m.session_id, acc |-> rootCause, loop |-> "next"]
    ELSE IF m.type = "assistant"
    THEN [sid |-> sid, acc |-> rootCause \o m.text, loop |-> "next"]
    ELSE IF m.type = "result"
    THEN [sid |-> sid, acc |-> rootCause,
          loop |-> IF m.is_error THEN "throw" ELSE "break"]
    ELSE [sid |-> sid, acc |-> rootCause, loop |-> "throw"]

\* Variant: the loop goes on after a result message that is no error
RemediationStep_NoBreak(sid, remediationResult, m) ==
    IF m.type = "init"
    THEN [sid |-> m.session_id, acc |-> remediationResult, loop |-> "next"]
    ELSE IF m.type = "assistant"
    THEN [sid |-> sid, acc |-> remediationResult, loop |-> "next"]
    ELSE IF m.type = "result"
    THEN IF m.is_error
         THEN [sid |-> sid, acc |-> remediationResult, loop |-> "throw"]
         ELSE [sid |-> sid, acc |-> m.text, loop |-> "next"]
    ELSE [sid |-> sid, acc |-> remediationResult, loop |-> "throw"]

\* One turn of the `for await` loop of runAmpRemediation on message m.
RemediationStep(sid, remediationResult, m) ==
    IF m.type = "init"
    THEN [sid |-> m.session_id, acc |-> remediationResult, loop |-> "next"]
    ELSE IF m.type = "assistant"
    THEN [sid |-> sid, acc |-> remediationResult, loop |-> "next"]
    ELSE IF m.type = "result"
    THEN IF m.is_error
         THEN [sid |-> sid, acc |-> remediationResult, loop |-> "throw"]
         ELSE [sid |-> sid, acc |-> m.text, loop |-> "break"]
    ELSE [sid |-> sid, acc |-> remediationResult, loop |-> "throw"]

-----------------------------------------------------------------------------
(* main: dispatch to one of the three AmpClient methods *)

\* loadTemplate(name) finds the file (present) or readFileSync throws; a file
\* read before keeps its state.
CanLoad(name, present) ==
    \/ tmpl[name] = "unread"
    \/ tmpl[name] = (IF present THEN "present" ELSE "absent")
Loaded(t, name, present) ==
    [t EXCEPT ![name] = IF present THEN "present" ELSE "absent"]

\* execute({prompt, options}) is called: the oracle will yield `st`
Invoke(st) ==
    /\ stream' = st
    /\ pos' = 1
    /\ sessionId' = ""
    /\ acc' = Empty
    /\ calls' = Bump("execute")
    /\ pc' = "oracle"
    /\ exitCode' = exitCode

\* options.mode === 'analyze': amp.analyzeFailure, which runs runAmpAnalysis
DispatchAnalyze ==
    /\ pc = "dispatch"
    /\ options.mode = "analyze"
    /\ path' = Append(path, "analyzeFailure")
    /\ prompt' = AnalyzePrompt(failure.branch)
    /\ \E st \in Streams : Invoke(st)
    /\ UNCHANGED <<cliVars, scanVars, gw, summary>>
    /\ UNCHANGED <<failure, logs, tmpl, branchClass, fixBranch, env>>
    /\ UNCHANGED <<termErr, caught, analysis, prVars>>

\* options.mode === 'triage' and not isMainBranch: amp.triageOnBranch loads two
\* templates (outside any try), builds the prompt and runs runAmpRemediation
DispatchTriageOnBranch ==
    /\ pc = "dispatch"
    /\ options.mode = "triage"
    /\ ~isMainBranch(failure.branch)
    /\ branchClass' = "Unprotected"
    /\ path' = Append(path, "triageOnBranch")
    /\ \E c \in BOOLEAN, b \in BOOLEAN :
        /\ CanLoad("pr-comment-automated-fix.md", c)
        /\ CanLoad("pr-branch-fix.md", b)
        /\ (~c => b)
        /\ IF ~c
           THEN /\ tmpl' = Loaded(tmpl, "pr-comment-automated-fix.md", c)
                /\ Exit1
                /\ UNCHANGED <<prompt, env, stream, pos, sessionId, acc, calls>>
           ELSE IF ~b
           THEN /\ tmpl' = Loaded(Loaded(tmpl, "pr-comment-automated-fix.md", c),
                                  "pr-branch-fix.md", b)
                /\ Exit1
                /\ UNCHANGED <<prompt, env, stream, pos, sessionId, acc, calls>>
           ELSE /\ tmpl' = Loaded(Loaded(tmpl, "pr-comment-automated-fix.md", c),
                                  "pr-branch-fix.md", b)
                /\ prompt' = TriageOnBranchPrompt(failure.branch)
                /\ env' = RemediationEnv(failure.branch, Empty)
                /\ \E st \in Streams : Invoke(st)
    /\ UNCHANGED <<cliVars, scanVars, gw, summary>>
    /\ UNCHANGED <<failure, logs, fixBranch>>
    /\ UNCHANGED <<termErr, caught, analysis, prVars>>

\* options.mode === 'triage' and isMainBranch: amp.triageOnMain names the fix
\* branch, loads its template (outside any try), builds the prompt and runs
\* runAmpRemediation with the fix branch
DispatchTriageOnMain ==
    /\ pc = "dispatch"
    /\ options.mode = "triage"
    /\ isMainBranch(failure.branch)
    /\ branchClass' = "Protected"
    /\ path' = Append(path, "triageOnMain")
    /\ \E now \in Timestamps : fixBranch' = FixBranchName(failure.branch, now)
    /\ \E m \in BOOLEAN :
        /\ CanLoad("pr-main-branch-fix.md", m)
        /\ tmpl' = Loaded(tmpl, "pr-main-branch-fix.md", m)
        /\ IF ~m
           THEN /\ Exit1
                /\ UNCHANGED <<prompt, env, stream, pos, sessionId, acc, calls>>
           ELSE /\ prompt' = TriageOnMainPrompt(failure.branch, fixBranch')
                /\ env' = RemediationEnv(failure.branch, fixBranch')
                /\ \E st \in Streams : Invoke(st)
    /\ UNCHANGED <<cliVars, scanVars, gw, summary>>
    /\ UNCHANGED <<failure, logs>>
    /\ UNCHANGED <<termErr, caught, analysis, prVars>>

-----------------------------------------------------------------------------
(* runAmpAnalysis / runAmpRemediation: the message loop *)

InAnalysis == path # <<>> /\ path[Len(path)] = "analyzeFailure"

Step(m) ==
    IF InAnalysis THEN AnalysisStep(sessionId, acc, m)
    ELSE RemediationStep(sessionId, acc, m)
Return(sid, text) ==
    IF InAnalysis THEN AnalysisReturn(failure.branch, text, sid)
    ELSE RemediationReturn(failure.branch, text, sid)
Catch(m) ==
    IF InAnalysis THEN AnalysisCatch(failure.branch, AnalysisError(m))
    ELSE RemediationCatch(failure.branch, RemediationError(m))

\* The oracle yields the next message and the loop body runs on it; on break
\* the record is returned, on throw the catch block returns its record.
OracleMessage ==
    /\ pc = "oracle"
    /\ pos <= Len(stream)
    /\ LET m == stream[pos]
           r == Step(m)
       IN /\ sessionId' = r.sid
          /\ acc' = r.acc
          /\ pos' = pos + 1
          /\ termErr' = (termErr \/ (m.type = "result" /\ m.is_error))
          /\ caught' = (caught \/ r.loop = "throw")
          /\ analysis' = IF r.loop = "break" THEN Return(r.sid, r.acc)
                         ELSE IF r.loop = "throw" THEN Catch(m)
                         ELSE analysis
          /\ pc' = IF r.loop = "next" THEN "oracle" ELSE "returned"
    /\ UNCHANGED <<cliVars, exitCode, scanVars, dispVars, stream, prVars, calls, gw, summary>>

\* The stream ends without a result message: the loop ends, the record is returned
OracleEnd ==
    /\ pc = "oracle"
    /\ pos > Len(stream)
    /\ analysis' = Return(sessionId, acc)
    /\ pc' = "returned"
    /\ UNCHANGED <<cliVars, exitCode, scanVars, dispVars, prVars, calls, gw, summary>>
    /\ UNCHANGED <<stream, pos, sessionId, acc, termErr, caught>>

-----------------------------------------------------------------------------
(* PR reconciliation: handlePRForBranch and createFixPR *)

NoPR == 0

\* GitHubClient.hasOpenPR: the number of the first open PR, null when there is
\* none and when the call throws
HasOpenPR(ok, prs) == IF ok /\ Len(prs) > 0 THEN prs[1] ELSE NoPR

\* Variants of handlePRForBranch: a PR is opened besides the comment; a PR is
\* opened when there is none; the comment goes to the PR after the found one
HandlePRCalls_Both(existing) ==
    IF existing # NoPR
    THEN << [op |-> "createComment", pr |-> existing, head |-> Empty, base |-> Empty],
            [op |-> "pulls.create", pr |-> NoPR, head |-> failure.branch, base |-> <<"main">>] >>
    ELSE <<>>
HandlePRCalls_Creating(existing) ==
    IF existing # NoPR
    THEN << [op |-> "createComment", pr |-> existing, head |-> Empty, base |-> Empty] >>
    ELSE << [op |-> "pulls.create", pr |-> NoPR, head |-> failure.branch, base |-> <<"main">>] >>
HandlePRCalls_OffByOne(existing) ==
    IF existing # NoPR
    THEN << [op |-> "createComment", pr |-> existing + 1, head |-> Empty, base |-> Empty] >>
    ELSE <<>>

\* handlePRForBranch: the call made for the result of hasOpenPR
HandlePRCalls(existing) ==
    IF existing # NoPR
    THEN << [op |-> "createComment", pr |-> existing, head |-> Empty, base |-> Empty] >>
    ELSE <<>>

\* Variant of createFixPR: head and base swapped
CreateFixPRCalls_Swapped(fixBranchName, targetBranch) ==
    << [op |-> "pulls.create", pr |-> NoPR, head |-> targetBranch, base |-> fixBranchName] >>

\* createFixPR: the pulls.create call
CreateFixPRCalls(fixBranchName, targetBranch) ==
    << [op |-> "pulls.create", pr |-> NoPR, head |-> fixBranchName, base |-> targetBranch] >>

\* analyzeFailure returned: main prints the analysis and goes to the summary
AnalyzeReturned ==
    /\ pc = "returned"
    /\ path[Len(path)] = "analyzeFailure"
    /\ pc' = "summary"
    /\ UNCHANGED <<cliVars, exitCode, scanVars, dispVars, oracleVars, prVars, calls, gw, summary>>

\* triageOnBranch after runAmpRemediation: handlePRForBranch asks for an open PR
HandlePRForBranch ==
    /\ pc = "returned"
    /\ path[Len(path)] = "triageOnBranch"
    /\ pc' = "hasOpenPR"
    /\ calls' = Bump("hasOpenPR")
    /\ UNCHANGED <<cliVars, exitCode, scanVars, dispVars, oracleVars, prVars, gw, summary>>

\* hasOpenPR returns: with a PR the comment template is loaded and rendered and
\* createComment is called; without one only a line is logged
HasOpenPRReturn ==
    /\ pc = "hasOpenPR"
    /\ \E ok \in BOOLEAN, prs \in PRLists :
        /\ (~ok => prs = <<>>)
        /\ gw' = [gw EXCEPT !.hasOpenPR = IF ok THEN "ok" ELSE "error", !.prs = prs]
        /\ existingPR' = HasOpenPR(ok, prs)
    /\ IF HandlePRCalls(existingPR') # <<>>
       THEN \E c \in BOOLEAN :
              /\ CanLoad("pr-comment-automated-fix.md", c)
              /\ tmpl' = Loaded(tmpl, "pr-comment-automated-fix.md", c)
              /\ IF c
                 THEN /\ prCalls' = prCalls \o HandlePRCalls(existingPR')
                      /\ calls' = Bump("createComment")
                      /\ pc' = "createComment"
                 ELSE /\ pc' = "summary"
                      /\ UNCHANGED <<prCalls, calls>>
       ELSE /\ pc' = "summary"
            /\ UNCHANGED <<tmpl, prCalls, calls>>
    /\ UNCHANGED <<cliVars, exitCode, scanVars, oracleVars, summary>>
    /\ UNCHANGED <<failure, logs, path, branchClass, fixBranch, prompt, env>>

\* issues.createComment returns or throws (caught and logged)
CreateCommentReturn ==
    /\ pc = "createComment"
    /\ \E ok \in BOOLEAN : gw' = [gw EXCEPT !.createComment = IF ok THEN "ok" ELSE "error"]
    /\ pc' = "summary"
    /\ UNCHANGED <<cliVars, exitCode, scanVars, dispVars, oracleVars, prVars, calls, summary>>

\* triageOnMain after runAmpRemediation: createFixPR loads and renders its
\* template (inside the try) and calls pulls.create
CreateFixPR ==
    /\ pc = "returned"
    /\ path[Len(path)] = "triageOnMain"
    /\ \E m \in BOOLEAN :
        /\ CanLoad("pr-main-branch-fix.md", m)
        /\ tmpl' = Loaded(tmpl, "pr-main-branch-fix.md", m)
        /\ IF m
           THEN /\ prCalls' = prCalls \o CreateFixPRCalls(fixBranch, failure.branch)
                /\ calls' = Bump("pulls.create")
                /\ pc' = "pulls.create"
           ELSE /\ pc' = "summary"
                /\ UNCHANGED <<prCalls, calls>>
    /\ UNCHANGED <<cliVars, exitCode, scanVars, oracleVars, existingPR, gw, summary>>
    /\ UNCHANGED <<failure, logs, path, branchClass, fixBranch, prompt, env>>

\* Variant: an error of pulls.create is not caught and ends main
PullsCreateReturn_Escalates ==
    /\ pc = "pulls.create"
    /\ \E ok \in BOOLEAN :
        /\ gw' = [gw EXCEPT !.pullsCreate = IF ok THEN "ok" ELSE "error"]
        /\ IF ok THEN pc' = "summary" /\ exitCode' = exitCode ELSE Exit1
    /\ UNCHANGED <<cliVars, scanVars, dispVars, oracleVars, prVars, calls, summary>>

\* pulls.create returns or throws (caught and logged)
PullsCreateReturn ==
    /\ pc = "pulls.create"
    /\ \E ok \in BOOLEAN : gw' = [gw EXCEPT !.pullsCreate = IF ok THEN "ok" ELSE "error"]
    /\ pc' = "summary"
    /\ UNCHANGED <<cliVars, exitCode, scanVars, dispVars, oracleVars, prVars, calls, summary>>

-----------------------------------------------------------------------------
(* main: the summary *)

\* String.includes on the pieces this model builds texts from
HasFailed(piece) ==
    piece \in {"Remediation failed: ", "Amp remediation failed: ", "Amp analysis failed: ",
               "fixed the failed Error check"}
HasError(piece) ==
    piece \in {"Error: ", "Error during analysis: ", "fixed the failed Error check"}
IncludesFailed(text) == \E k \in 1..Len(text) : HasFailed(text[k])
IncludesError(text) == \E k \in 1..Len(text) : HasError(text[k])

\* Variant: the text of the fix is searched as well
IsFailedResult_AnyField(r) ==
    \/ IncludesFailed(r.rootCause) \/ IncludesError(r.rootCause)
    \/ IncludesFailed(r.suggestedFix) \/ IncludesError(r.suggestedFix)
IsFailedResult(r) == IncludesFailed(r.rootCause) \/ IncludesError(r.rootCause)
IsSuccessfulResult(r) == ~IncludesFailed(r.rootCause) /\ ~IncludesError(r.rootCause)
\* results.filter(...).length
CountSuccessful(results) ==
    Cardinality({ k \in 1..Len(results) : IsSuccessfulResult(results[k]) })
CountFailed(results) ==
    Cardinality({ k \in 1..Len(results) : IsFailedResult(results[k]) })

\* The summary lines; Successful and Failed are printed in triage mode only
Summarize(mode, results) ==
    [processed |-> Len(results),
     successful |-> IF mode = "triage" THEN CountSuccessful(results) ELSE -1,
     failed |-> IF mode = "triage" THEN CountFailed(results) ELSE -1]

Summary ==
    /\ pc = "summary"
    /\ summary' = Summarize(options.mode, <<analysis>>)
    /\ Exit0
    /\ UNCHANGED <<cliVars, scanVars, dispVars, oracleVars, prVars, calls, gw>>

-----------------------------------------------------------------------------
(* The program *)

RemoteOps == {"listBranches", "getDefaultBranch", "getLatestFailedRun",
              "getWorkflowLogs", "execute", "hasOpenPR", "createComment", "pulls.create"}

\* The command lines: a branch is given with analyze and triage only
\* (`triage <owner/repo> list`, `triage <owner/repo> analyze [branch]`).
CommandLines ==
    { a \in [repo : RepoArgs, mode : ModeArgs, branch : BranchArgs] :
        a.mode \notin {"analyze", "triage"} => a.branch = Empty }

NoProbe == [fn |-> "none"]

\* main has not started
Idle ==
    /\ options = NoOptions
    /\ pc = "start"
    /\ exitCode = -1
    /\ branches = <<>>
    /\ i = 1
    /\ inflight = {}
    /\ latest = [b \in BranchNames |-> "unasked"]
    /\ failures = <<>>
    /\ report = <<>>
    /\ failure = NoFailure
    /\ logs = Empty
    /\ tmpl = [t \in Templates |-> "unread"]
    /\ path = <<>>
    /\ branchClass = "none"
    /\ fixBranch = Empty
    /\ prompt = NoPrompt
    /\ env = NoEnv
    /\ stream = <<>>
    /\ pos = 1
    /\ sessionId = ""
    /\ acc = Empty
    /\ termErr = FALSE
    /\ caught = FALSE
    /\ analysis = NoAnalysis
    /\ existingPR = NoPR
    /\ prCalls = <<>>
    /\ calls = [op \in RemoteOps |-> 0]
    /\ gw = [list |-> "unasked", listed |-> <<>>, default |-> "unasked",
             defaultBranch |-> Empty, hasOpenPR |-> "unasked", prs |-> <<>>,
             createComment |-> "unasked", pullsCreate |-> "unasked"]
    /\ summary = NoSummary

Init ==
    /\ args \in CommandLines
    /\ probe = NoProbe
    /\ Idle

Next ==
    \/ Start
    \/ ListBranchesReturn
    \/ GetDefaultBranchReturn
    \/ StartBatch
    \/ \E k \in 1..Len(branches) : DetectReturn(k)
    \/ AfterScan
    \/ GetWorkflowLogsReturn
    \/ DispatchAnalyze
    \/ DispatchTriageOnBranch
    \/ DispatchTriageOnMain
    \/ OracleMessage
    \/ OracleEnd
    \/ AnalyzeReturned
    \/ HandlePRForBranch
    \/ HasOpenPRReturn
    \/ CreateCommentReturn
    \/ CreateFixPR
    \/ PullsCreateReturn
    \/ Summary

Spec == Init /\ [][Next]_vars

-----------------------------------------------------------------------------
(* Properties *)

Protected(branch) == branch \in { <<"main">>, <<"master">> }
OracleInvoked == calls["execute"] > 0
PRCallCount == calls["pulls.create"] + calls["createComment"]
Reconciled == pc \in {"createComment", "pulls.create", "summary", "done"}
              /\ analysis # NoAnalysis
IsFixBranchOf(name, branch) ==
    \E now \in Timestamps : name = <<"fix/triage-", branch[1], "-", now>>

\* C1: in triage mode on main or master, whenever the oracle has been invoked
\* a fix branch name exists, differs from the original branch, and is the only
\* push target given to the oracle (prompt and FIX_BRANCH); the original
\* branch is never the push target.
C1_ProtectedPushTarget ==
    (options.mode = "triage" /\ Protected(failure.branch) /\ OracleInvoked) =>
        /\ fixBranch # Empty
        /\ fixBranch # failure.branch
        /\ IsFixBranchOf(fixBranch, failure.branch)
        /\ prompt.push = fixBranch
        /\ prompt.push # failure.branch
        /\ env.FIX_BRANCH = fixBranch

C1_Witness ==
    /\ pc = "oracle"
    /\ options.mode = "triage"
    /\ failure.branch = <<"master">>
    /\ prompt.push = fixBranch
    /\ fixBranch # Empty

\* C2: in every execution, gateway errors included, at most one create-pr or
\* comment-on-pr call is made for the outcome.
C2_AtMostOnePRCall ==
    /\ Len(prCalls) <= 1
    /\ PRCallCount <= 1

C2_Witness ==
    /\ Len(prCalls) = 1
    /\ gw.hasOpenPR = "ok"
    /\ gw.createComment = "error"
    /\ pc = "done"

\* C3 (as claimed): in a triage run whose oracle ended with an error-flagged
\* terminal message, no create-pr and no comment-on-pr call is made.
C3_NoPRCallAfterFailed ==
    (options.mode = "triage" /\ termErr) => (prCalls = <<>> /\ PRCallCount = 0)

\* C4: on the protected path with a completed remediation, reconciliation makes
\* exactly one pulls.create call, head the fix branch and base the original
\* branch, without any hasOpenPR call and without any comment.
C4_ProtectedCreatesOnePR ==
    (path = <<"triageOnMain">> /\ ~caught /\ Reconciled) =>
        /\ Len(prCalls) = 1
        /\ prCalls[1].op = "pulls.create"
        /\ prCalls[1].head = fixBranch
        /\ IsFixBranchOf(prCalls[1].head, failure.branch)
        /\ prCalls[1].base = failure.branch
        /\ Protected(prCalls[1].base)
        /\ calls["pulls.create"] = 1
        /\ calls["hasOpenPR"] = 0
        /\ calls["createComment"] = 0

C4_Witness ==
    /\ pc = "done"
    /\ path = <<"triageOnMain">>
    /\ ~caught
    /\ failure.branch = <<"main">>
    /\ Len(prCalls) = 1
    /\ gw.pullsCreate = "ok"

\* C5: on the unprotected path, when hasOpenPR returned a PR number, exactly one
\* comment call is made, on that number, and no PR is created.
C5_CommentOnExistingPR ==
    (path = <<"triageOnBranch">> /\ gw.hasOpenPR = "ok" /\ existingPR # NoPR) =>
        /\ existingPR = gw.prs[1]
        /\ Len(prCalls) = 1
        /\ prCalls[1].op = "createComment"
        /\ prCalls[1].pr = existingPR
        /\ calls["createComment"] = 1
        /\ calls["pulls.create"] = 0

C5_Witness ==
    /\ pc = "done"
    /\ path = <<"triageOnBranch">>
    /\ failure.branch = <<"feature/x">>
    /\ gw.prs = <<42, 41>>
    /\ existingPR = 42
    /\ gw.createComment = "ok"

C7_AnalyzeHasNoSideEffects ==
    (options.mode = "analyze") =>
        /\ fixBranch = Empty
        /\ branchClass = "none"
        /\ prompt.push = Empty
        /\ env = NoEnv
        /\ prCalls = <<>>
        /\ PRCallCount = 0
        /\ calls["hasOpenPR"] = 0
        /\ (pc = "done" \/ ENABLED Next)
        /\ (pc = "done" /\ OracleInvoked => exitCode = 0 /\ analysis.branch = failure.branch)

C7_Witness ==
    /\ options.mode = "analyze"
    /\ pc = "done"
    /\ failure.branch = <<"main">>
    /\ analysis # NoAnalysis
    /\ ~caught

\* C8: once a failure of the target branch is dispatched, exactly one of the
\* three paths is entered, chosen by mode and branch class alone; the direct
\* path checks out and pushes to the target branch.
C8_OnePathByModeAndClass ==
    /\ Len(path) <= 1
    /\ (path # <<>>) =>
          /\ failure # NoFailure
          /\ failure.branch = branches[1]
          /\ path[1] = (IF options.mode = "analyze" THEN "analyzeFailure"
                        ELSE IF Protected(failure.branch) THEN "triageOnMain"
                        ELSE "triageOnBranch")
    /\ (failure # NoFailure /\ pc \notin {"getWorkflowLogs", "dispatch"}) => Len(path) = 1
    /\ (path = <<"triageOnBranch">> /\ OracleInvoked) =>
          /\ prompt.checkout = failure.branch
          /\ prompt.push = failure.branch
          /\ env.BRANCH_NAME = failure.branch
          /\ env.FIX_BRANCH = failure.branch
          /\ fixBranch = Empty

C8_Witness ==
    /\ path = <<"triageOnBranch">>
    /\ pc = "oracle"
    /\ failure.branch = <<"dev">>
    /\ gw.defaultBranch = <<"dev">>

\* C9: the class computed for a branch is Protected exactly when the name is
\* main or master, whatever the gateway answered (default branch, open PRs,
\* run history), and it is computed before the oracle or any PR call is made.
C9_ClassIsFunctionOfName ==
    /\ (branchClass # "none") =>
          (branchClass = "Protected" <=> failure.branch \in { <<"main">>, <<"master">> })
    /\ (branchClass # "none") =>
          (branchClass = "Unprotected" <=> failure.branch \notin { <<"main">>, <<"master">> })
    /\ (options.mode = "triage" /\ (OracleInvoked \/ calls["hasOpenPR"] > 0 \/ prCalls # <<>>))
          => branchClass # "none"

C9_Witness ==
    /\ branchClass = "Unprotected"
    /\ gw.default = "ok"
    /\ gw.defaultBranch = failure.branch
    /\ failure.branch = <<"feature/x">>
    /\ pc = "oracle"

\* C10: when the oracle's terminal message is error-flagged, in analyze mode
\* and on both triage paths, the outcome is built by the catch block for the
\* same branch with a status text that names the failure and carries the
\* oracle's error; the run is never stuck, never exits with 1, and ends after
\* the summary with exit code 0.
C10_OracleErrorIsData ==
    termErr =>
        /\ caught
        /\ analysis.branch = failure.branch
        /\ IncludesFailed(analysis.rootCause)
        /\ Includes(analysis.rootCause, "boom")
        /\ analysis.rootCause[1] \in {"Remediation failed: ", "Error during analysis: "}
        /\ exitCode # 1
        /\ (pc = "done" \/ ENABLED Next)
        /\ (pc = "done" => exitCode = 0 /\ summary.processed = 1)

C10_Witness ==
    /\ termErr
    /\ pc = "done"
    /\ exitCode = 0
    /\ path = <<"triageOnBranch">>
    /\ summary.failed = 1

\* Index of the first result message of a stream, 0 when it has none
FirstResult(st) ==
    IF \E k \in 1..Len(st) : st[k].type = "result"
    THEN CHOOSE k \in 1..Len(st) :
            /\ st[k].type = "result"
            /\ \A j \in 1..(k - 1) : st[j].type # "result"
    ELSE 0
InitsBefore(st, r) == { k \in 1..(r - 1) : st[k].type = "init" }
ThrowsBefore(st, r) == { k \in 1..(r - 1) : st[k].type = "throw" }

\* C11: once the stream's first result message is consumed, nothing after it
\* is: the loop position never passes it, and the session id, the accumulated
\* text and the outcome come from the messages up to it alone, whether it is
\* error-flagged or not.
C11_StopsAtFirstResult ==
    (OracleInvoked /\ FirstResult(stream) # 0) =>
        LET r == FirstResult(stream) IN
        /\ pos <= r + 1
        /\ (sessionId # "") => \E k \in InitsBefore(stream, r) : sessionId = stream[k].session_id
        /\ (InAnalysis /\ acc # Empty) =>
              \E k \in 1..(r - 1) : stream[k].type = "assistant" /\ stream[k].text # Empty
        /\ (~InAnalysis /\ acc # Empty) => (acc = stream[r].text /\ pos = r + 1)
        /\ (pc # "oracle") =>
              /\ (analysis.ampThreadUrl # Empty) => InitsBefore(stream, r) # {}
              /\ (ThrowsBefore(stream, r) = {}) =>
                    /\ pos = r + 1
                    /\ caught = stream[r].is_error
                    /\ termErr = stream[r].is_error
                    /\ (~caught /\ InitsBefore(stream, r) = {}) => analysis.ampThreadUrl = Empty
                    /\ (~caught /\ ~InAnalysis) =>
                          analysis.suggestedFix =
                              (IF stream[r].text # Empty THEN stream[r].text
                               ELSE <<"Fixes applied successfully">>)

C11_Witness ==
    /\ pc = "done"
    /\ path = <<"triageOnBranch">>
    /\ Len(stream) = 2
    /\ stream[1].type = "result" /\ ~stream[1].is_error /\ stream[1].text = <<"summary">>
    /\ stream[2].type = "init"
    /\ pos = 2
    /\ sessionId = ""
    /\ analysis.ampThreadUrl = Empty

-----------------------------------------------------------------------------
(* The failure detector on its own: every branch, call outcome and history *)

DetectorProbes ==
    [fn : {"getLatestFailedRun"}, branch : BranchNames, ok : BOOLEAN,
     runs : RunHistories, out : {NoFailure}, done : {FALSE}]

InitDetect ==
    /\ args = [repo |-> <<"owner", "/", "repo">>, mode |-> "list", branch |-> Empty]
    /\ probe \in DetectorProbes
    /\ Idle

ApplyDetector ==
    /\ probe.fn = "getLatestFailedRun"
    /\ ~probe.done
    /\ probe' = [probe EXCEPT
                    !.out = GetLatestFailedRun(probe.branch, FetchLatestRun(probe.ok, probe.runs)),
                    !.done = TRUE]
    /\ UNCHANGED <<args, options, pc, exitCode, scanVars, dispVars, oracleVars,
                   prVars, calls, gw, summary>>

NextDetect == ApplyDetector

SpecDetect == InitDetect /\ [][NextDetect]_vars

\* C12: the detector returns a record exactly when the call gave a most recent
\* completed run whose conclusion is failure, timed_out or action_required,
\* and the record names the branch and that conclusion; it returns nothing
\* without a completed run, after a failed call, and when the most recent run
\* has another conclusion, whatever the older runs are.
C12_DetectorIffLatestFailed ==
    (probe.fn = "getLatestFailedRun" /\ probe.done) =>
        /\ (probe.out # NoFailure) <=>
              /\ probe.ok
              /\ Len(probe.runs) > 0
              /\ probe.runs[1] \in {"failure", "timed_out", "action_required"}
        /\ (probe.out # NoFailure) =>
              /\ probe.out.branch = probe.branch
              /\ probe.out.conclusion = probe.runs[1]
        /\ (probe.runs = <<>>) => probe.out = NoFailure
        /\ (Len(probe.runs) > 0 /\ probe.runs[1] = "success") => probe.out = NoFailure

C12_Witness ==
    /\ probe.fn = "getLatestFailedRun"
    /\ probe.done
    /\ probe.ok
    /\ probe.runs = <<"success", "failure">>
    /\ probe.out = NoFailure

-----------------------------------------------------------------------------
(* Properties of the scan *)

ReportedConclusions == {"failure", "timed_out", "action_required"}
RecordsOf(b) == { k \in 1..Len(failures) : failures[k].branch = b }
Returned(k) == k \notin inflight /\ latest[branches[k]] # "unasked"
Started(k) == k \in inflight \/ latest[branches[k]] # "unasked"
ScanDone ==
    /\ pc \notin {"start", "listBranches", "getDefaultBranch"}
    /\ inflight = {}
    /\ i > Len(branches)

\* C13 (as claimed): after a scan every scanned branch whose most recent
\* completed run has any conclusion other than success has exactly one record,
\* and no branch has more than one.
C13_AnyNonSuccessRecorded ==
    /\ \A b \in BranchNames : Cardinality(RecordsOf(b)) <= 1
    /\ ScanDone =>
          \A k \in 1..Len(branches) :
              (latest[branches[k]] \in Conclusions \ {"success"}) =>
                  Cardinality(RecordsOf(branches[k])) = 1

\* C13 (amended): after a scan every scanned branch whose most recent
\* completed run, as returned by the gateway, has conclusion failure,
\* timed_out or action_required has exactly one record; a branch with any
\* other answer (success, cancelled, no run, failed call) has none; and no
\* branch ever has more than one.
C13_FailingRecordedOnce ==
    /\ \A b \in BranchNames : Cardinality(RecordsOf(b)) <= 1
    /\ ScanDone =>
          \A k \in 1..Len(branches) :
              Cardinality(RecordsOf(branches[k])) =
                  (IF latest[branches[k]] \in ReportedConclusions THEN 1 ELSE 0)

C13_Witness ==
    /\ ScanDone
    /\ Len(branches) = 4
    /\ latest[branches[1]] = "cancelled"
    /\ latest[branches[2]] = "action_required"
    /\ latest[branches[4]] = "timed_out"
    /\ Len(failures) = 2

\* C14: a branch whose detector call failed has no record, and the failed call
\* neither ends main nor stops the scan: main ends only after every branch of
\* every batch was evaluated, and every failing run found is recorded.
C14_ErrorSkipsOneBranchOnly ==
    \A e \in 1..Len(branches) :
        (latest[branches[e]] = "error") =>
            /\ RecordsOf(branches[e]) = {}
            /\ (pc = "scan") => (exitCode = -1 /\ ENABLED Next)
            /\ (pc = "done") => ScanDone
            /\ ScanDone =>
                  \A k \in 1..Len(branches) :
                      /\ Returned(k)
                      /\ (latest[branches[k]] \in ReportedConclusions) =>
                            \E r \in RecordsOf(branches[k]) :
                                failures[r].conclusion = latest[branches[k]]

C14_Witness ==
    /\ ScanDone
    /\ Len(branches) = 4
    /\ latest[branches[1]] = "error"
    /\ latest[branches[2]] = "failure"
    /\ latest[branches[4]] = "timed_out"
    /\ Len(failures) = 2

\* C15: at most 3 detector calls are in flight, and a call of a later batch
\* is started only when every call of every earlier batch has returned.
BatchOf(k) == (k - 1) \div 3
C15_BatchesOfThree ==
    /\ Cardinality(inflight) <= 3
    /\ \A k \in 1..Len(branches), j \in 1..Len(branches) :
          (Started(k) /\ BatchOf(j) < BatchOf(k)) => Returned(j)
    /\ \A k \in inflight : k \in 1..Len(branches)

C15_Witness ==
    /\ pc = "scan"
    /\ Len(branches) = 4
    /\ inflight = {4}
    /\ Len(failures) = 3
    /\ failures[1].branch = branches[3]

\* C16: whatever the order in which the detector calls return, the collection
\* holds exactly the records returned so far: one entry, with the branch and
\* the conclusion, per call that returned a failing run, and nothing else.
C16_NoLostOrDuplicateAppend ==
    /\ \A b \in BranchNames :
          /\ Cardinality(RecordsOf(b)) = (IF latest[b] \in ReportedConclusions THEN 1 ELSE 0)
          /\ \A r \in RecordsOf(b) : failures[r].conclusion = latest[b]
    /\ Len(failures) = Cardinality({ b \in BranchNames : latest[b] \in ReportedConclusions })

C16_Witness ==
    /\ ScanDone
    /\ Len(branches) = 4
    /\ Len(failures) = 4
    /\ failures[1].branch = branches[2]
    /\ failures[2].branch = branches[3]
    /\ failures[3].branch = branches[1]

-----------------------------------------------------------------------------
(* The branch scanner as a function of the listing and the pattern list.    *)
(* A name or a pattern is a sequence of pieces and a piece is matched as    *)
(* one character.                                                           *)

GlobRepoOrder ==
    << <<"main">>, <<"feature", "/", "auth">>, <<"master">>, <<"feature">>,
       <<"d", "e", "v">>, <<"D", "e", "v">>, <<>> >>
GlobBranchLists == { Pick(GlobRepoOrder, keep) : keep \in SUBSET (1..Len(GlobRepoOrder)) }
Patterns ==
    { <<"*">>, <<"feature", "/", "*">>, <<"d", "e", "?">>, <<"d", "e", "v">>,
      <<"?", "e", "v", "*">>, <<"d", ".", "*">>, <<"main">> }

ScannerProbes ==
    [fn : {"listBranches"}, ok : BOOLEAN, names : GlobBranchLists,
     filters : SeqsUpTo(Patterns, MaxFilters), out : {<<>>}, done : {FALSE}]
InitGlob ==
    /\ args = [repo |-> <<"owner", "/", "repo">>, mode |-> "list", branch |-> Empty]
    /\ probe \in ScannerProbes
    /\ (~probe.ok => probe.names = <<>>)
    /\ Idle
ApplyListBranches ==
    /\ probe.fn = "listBranches"
    /\ ~probe.done
    /\ probe' = [probe EXCEPT
                    !.out = ListBranches(probe.ok, probe.names, probe.filters),
                    !.done = TRUE]
    /\ UNCHANGED <<args, options, pc, exitCode, scanVars, dispVars, oracleVars,
                   prVars, calls, gw, summary>>
NextGlob == ApplyListBranches
SpecGlob == InitGlob /\ [][NextGlob]_vars

\* Glob matching as the specification words it: * is any run of characters,
\* ? is exactly one character, every other character is itself.
RECURSIVE GlobMatch(_, _)
GlobMatch(pattern, str) ==
    IF pattern = <<>> THEN str = <<>>
    ELSE IF Head(pattern) = "*"
         THEN GlobMatch(Tail(pattern), str) \/ (str # <<>> /\ GlobMatch(pattern, Tail(str)))
         ELSE /\ str # <<>>
              /\ (Head(pattern) = "?" \/ Head(pattern) = Head(str))
              /\ GlobMatch(Tail(pattern), Tail(str))
Selected(name, filters) ==
    IF filters = << <<"*">> >> THEN TRUE
    ELSE IF filters = <<>> THEN name \in { <<"main">>, <<"master">> }
    ELSE \E k \in 1..Len(filters) : filters[k] = name \/ GlobMatch(filters[k], name)

\* C18: the branch scanner returns, in the gateway's order, exactly the
\* branches selected by the pattern list: all for "*", main and master for no
\* pattern, otherwise those equal to or glob-matching some pattern.
C18_ScannerSelectsByGlob ==
    (probe.fn = "listBranches" /\ probe.done /\ probe.ok) =>
        probe.out = SelectSeq(probe.names, LAMBDA name : Selected(name, probe.filters))

-----------------------------------------------------------------------------
(* Properties of list mode, of a failed listing and of the exit code *)

ReportEntries(b) == { k \in 1..Len(report) : report[k] = b }
Listed(b) == \E k \in 1..Len(gw.listed) : gw.listed[k] = b

\* C17: in list mode every branch the gateway returned is scanned, and the
\* report has exactly one entry for each of them whose latest completed run has
\* conclusion failure, timed_out or action_required, and no other entry.
C17_ListReportsEveryFailingBranch ==
    (options.mode = "list" /\ pc = "done" /\ gw.list = "ok") =>
        /\ branches = gw.listed
        /\ \A k \in 1..Len(gw.listed) : latest[gw.listed[k]] # "unasked"
        /\ \A b \in BranchNames :
              Cardinality(ReportEntries(b)) =
                  (IF Listed(b) /\ latest[b] \in ReportedConclusions THEN 1 ELSE 0)

C17_Witness ==
    /\ options.mode = "list"
    /\ pc = "done"
    /\ gw.listed = << <<"main">>, <<"feature/x">> >>
    /\ latest[<<"main">>] = "failure"
    /\ latest[<<"feature/x">>] = "success"
    /\ report = << <<"main">> >>

\* C19: when the branch-listing call fails the scanner returns the empty list;
\* the run makes no other remote call (detector, log download, oracle, PR) and
\* ends with exit code 0.
C19_FailedListingEndsQuietly ==
    (gw.list = "error") =>
        /\ branches = <<>>
        /\ pc = "done"
        /\ exitCode = 0
        /\ \A op \in RemoteOps \ {"listBranches"} : calls[op] = 0
        /\ prCalls = <<>>
        /\ failures = <<>>

C19_Witness ==
    /\ gw.list = "error"
    /\ pc = "done"
    /\ calls["listBranches"] = 1
    /\ exitCode = 0

\* C20: the process ends with exit code 1 exactly when an error reached main's
\* catch (the command line was rejected, or a template could not be read);
\* every other run ends with exit code 0, and no exit code exists before the end.
BadCommandLine ==
    \/ args.repo = Empty
    \/ \A k \in 1..Len(args.repo) : args.repo[k] # "/"
    \/ args.mode \notin {"list", "analyze", "triage"}
TemplateMissing == \E t \in Templates : tmpl[t] = "absent"
C20_ExitOneIffUncaughtError ==
    /\ (pc # "done") => (exitCode = -1 /\ ~TemplateMissing)
    /\ (pc = "done") =>
          exitCode = (IF BadCommandLine \/ TemplateMissing THEN 1 ELSE 0)

C20_Witness ==
    /\ pc = "done"
    /\ exitCode = 0
    /\ options.mode = "triage"
    /\ caught
    /\ gw.pullsCreate = "error"
    /\ gw.default = "error"

-----------------------------------------------------------------------------
(* Properties of the command line *)

NoRemoteCall == \A op \in RemoteOps : calls[op] = 0
\* <owner/repo>: an owner, a slash, a repository name
WellFormedRepo(r) == \E k \in 2..(Len(r) - 1) : r[k] = "/"
KnownCommand(m) == m \in {"list", "analyze", "triage"}

\* C21: a malformed repository spec or an unknown command is rejected before
\* any remote call: the run makes no gateway call and no oracle invocation and
\* ends with exit code 1.
C21_InputErrorRejectedEarly ==
    (~WellFormedRepo(args.repo) \/ ~KnownCommand(args.mode)) =>
        /\ NoRemoteCall
        /\ pc \in {"start", "done"}
        /\ (pc = "done") => (exitCode = 1)

-----------------------------------------------------------------------------
(* Properties of the reconciler's error handling *)

ReconcilerError ==
    gw.hasOpenPR = "error" \/ gw.createComment = "error" \/ gw.pullsCreate = "error"
InReconciler == pc \in {"hasOpenPR", "createComment", "pulls.create"}

\* C22: an error while querying for an open PR, creating a PR or posting a
\* comment does not abort the run: the reconciler never changes the outcome the
\* dispatcher produced, after the error main goes on to the summary, which
\* reports that outcome, and the process ends with exit code 0.
C22_ReconcilerErrorsAreCaught ==
    /\ [](ReconcilerError =>
            /\ pc \in {"summary", "done"}
            /\ analysis # NoAnalysis
            /\ analysis.branch = failure.branch
            /\ (pc = "summary") => (exitCode = -1)
            /\ (pc = "done") =>
                  /\ exitCode = 0
                  /\ summary = Summarize(options.mode, <<analysis>>)
                  /\ summary.processed = 1)
    /\ [][(InReconciler \/ ReconcilerError) => (analysis' = analysis)]_vars

C22_Witness ==
    /\ pc = "done"
    /\ exitCode = 0
    /\ gw.createComment = "error"
    /\ existingPR = 41
    /\ summary.processed = 1
    /\ summary.successful = 1

-----------------------------------------------------------------------------
(* Properties of the target branch *)

\* C23: in analyze and triage modes with no branch argument the single target
\* branch is the default branch the gateway returned, and "main" when the
\* lookup failed; in both cases the run goes on to scan that branch.
C23_OmittedBranchIsDefault ==
    (options.mode \in {"analyze", "triage"} /\ args.branch = Empty
        /\ gw.default # "unasked") =>
        /\ branches = << IF gw.default = "ok" THEN gw.defaultBranch ELSE <<"main">> >>
        /\ calls["getDefaultBranch"] = 1
        /\ (pc = "scan" /\ i = 1) \/ Started(1)
        /\ exitCode = 1 => TemplateMissing
        /\ (failure # NoFailure) => (failure.branch = branches[1])

C23_Witness ==
    /\ options.mode = "triage"
    /\ args.branch = Empty
    /\ gw.default = "error"
    /\ pc = "done"
    /\ failure.branch = <<"main">>
    /\ calls["pulls.create"] = 1

-----------------------------------------------------------------------------
(* Properties of the order of the stages *)

Calls(op) == calls[op]
PRStageCalls == Calls("hasOpenPR") + Calls("createComment") + Calls("pulls.create")

\* C24: in analyze and triage modes one target branch is processed and the
\* stages follow one another: the detector call has returned before the log
\* download starts, the download has returned before the oracle is invoked,
\* every PR call comes after the oracle's stream was left, and the oracle is
\* invoked at most once, also after a Failed outcome.
C24_StagesInSequence ==
    (options.mode \in {"analyze", "triage"}) =>
        /\ Len(branches) <= 1
        /\ Calls("getLatestFailedRun") <= 1
        /\ Calls("getWorkflowLogs") <= 1
        /\ Calls("execute") <= 1
        /\ (Calls("getWorkflowLogs") > 0) =>
              (inflight = {} /\ Returned(1) /\ failure.branch = branches[1]
               /\ Calls("getLatestFailedRun") = 1)
        /\ (pc = "getWorkflowLogs") => (Calls("execute") = 0 /\ PRStageCalls = 0)
        /\ (Calls("execute") > 0) =>
              (Calls("getWorkflowLogs") = 1 /\ pc # "getWorkflowLogs" /\ logs \in LogTexts)
        /\ (pc = "oracle") => (PRStageCalls = 0)
        /\ (PRStageCalls > 0) =>
              (Calls("execute") = 1 /\ pc # "oracle" /\ analysis # NoAnalysis)

C24_Witness ==
    /\ options.mode = "triage"
    /\ pc = "done"
    /\ caught
    /\ Calls("getLatestFailedRun") = 1
    /\ Calls("getWorkflowLogs") = 1
    /\ Calls("execute") = 1
    /\ Calls("hasOpenPR") = 1
    /\ Calls("createComment") = 1

\* C25: job logs are downloaded only in analyze or triage mode and only after
\* a failure record for the target branch was found; list mode and a run whose
\* target branch has no record never download logs.
C25_LogsOnlyForFoundFailure ==
    /\ (Calls("getWorkflowLogs") > 0) =>
          /\ options.mode \in {"analyze", "triage"}
          /\ ScanDone
          /\ failure # NoFailure
          /\ failure.branch = branches[1]
          /\ \E r \in RecordsOf(branches[1]) : failures[r] = failure
          /\ latest[branches[1]] \in ReportedConclusions
    /\ (options.mode = "list") => (Calls("getWorkflowLogs") = 0 /\ logs = Empty)
    /\ (pc = "done" /\ failure = NoFailure) => (Calls("getWorkflowLogs") = 0 /\ logs = Empty)

C25_Witness ==
    /\ options.mode = "analyze"
    /\ pc = "done"
    /\ Calls("getWorkflowLogs") = 1
    /\ logs # <<"Could not retrieve logs">>
    /\ latest[branches[1]] = "timed_out"

-----------------------------------------------------------------------------
(* Properties of the direct (feature branch) path *)

NoOpenPRFound ==
    /\ options.mode = "triage"
    /\ failure # NoFailure
    /\ failure.branch \notin { <<"main">>, <<"master">> }
    /\ gw.hasOpenPR # "unasked"
    /\ existingPR = NoPR

-----------------------------------------------------------------------------
(* The log text as a function of the job list and of the downloads *)

LogProbes ==
    [fn : {"getWorkflowLogs"}, ok : BOOLEAN, jobs : SeqsUpTo(Jobs, MaxJobs),
     out : {<<>>}, done : {FALSE}]
InitLogs ==
    /\ args = [repo |-> <<"owner", "/", "repo">>, mode |-> "analyze", branch |-> Empty]
    /\ probe \in LogProbes
    /\ (~probe.ok => probe.jobs = <<>>)
    /\ Idle
ApplyGetWorkflowLogs ==
    /\ probe.fn = "getWorkflowLogs"
    /\ ~probe.done
    /\ probe' = [probe EXCEPT !.out = GetWorkflowLogs(probe.ok, probe.jobs), !.done = TRUE]
    /\ UNCHANGED <<args, options, pc, exitCode, scanVars, dispVars, oracleVars,
                   prVars, calls, gw, summary>>
NextLogs == ApplyGetWorkflowLogs
SpecLogs == InitLogs /\ [][NextLogs]_vars

FailedJobs(jobs) == SelectSeq(jobs, LAMBDA job : job.conclusion = "failure")

\* C27: the log text has one section per failed job, in job order; the section
\* of a job whose log download failed is the heading and "Logs unavailable",
\* and the sections of the other failed jobs carry their logs.
C27_OneSectionPerFailedJob ==
    (probe.fn = "getWorkflowLogs" /\ probe.done /\ probe.ok) =>
        LET failed == FailedJobs(probe.jobs) IN
        /\ Len(probe.out) = 4 * Len(failed)
        /\ \A k \in 1..Len(failed) :
              /\ probe.out[4 * k - 3] = "\n=== Job: "
              /\ probe.out[4 * k - 2] = failed[k].name
              /\ probe.out[4 * k - 1] = " ===\n"
              /\ probe.out[4 * k] =
                    (IF failed[k].fetch = "error" THEN "Logs unavailable\n" ELSE failed[k].fetch)

C27_Witness ==
    /\ probe.fn = "getWorkflowLogs"
    /\ probe.done
    /\ Len(probe.jobs) = 3
    /\ probe.jobs[1] = [name |-> "build", conclusion |-> "failure", fetch |-> "error"]
    /\ probe.jobs[2].conclusion = "success"
    /\ probe.jobs[3] = [name |-> "test", conclusion |-> "failure", fetch |-> "log"]
    /\ Len(probe.out) = 8
    /\ probe.out[4] = "Logs unavailable\n"
    /\ probe.out[8] = "log"

\* C28: a fix branch name exists only on the Protected triage path; in analyze
\* mode and on the direct path there is none, and on the direct path the push
\* target given to the oracle, in the prompt and in FIX_BRANCH, is the
\* originating branch.
C28_FixBranchOnlyWhenProtected ==
    /\ (fixBranch # Empty) =>
          /\ options.mode = "triage"
          /\ path = <<"triageOnMain">>
          /\ branchClass = "Protected"
          /\ failure.branch \in { <<"main">>, <<"master">> }
    /\ (options.mode = "analyze") =>
          (fixBranch = Empty /\ env = NoEnv /\ prompt.push = Empty)
    /\ (path = <<"triageOnBranch">>) =>
          /\ fixBranch = Empty
          /\ (Calls("execute") > 0) =>
                /\ prompt.push = failure.branch
                /\ env.FIX_BRANCH = failure.branch
          /\ \A k \in 1..Len(prCalls) : prCalls[k].op = "createComment"

C28_Witness ==
    /\ path = <<"triageOnBranch">>
    /\ pc = "done"
    /\ failure.branch = <<"feature/x">>
    /\ fixBranch = Empty
    /\ env.FIX_BRANCH = <<"feature/x">>
    /\ existingPR = 42

-----------------------------------------------------------------------------
(* Properties of the summary *)

Summarized == options.mode = "triage" /\ pc = "done" /\ summary # NoSummary
ThrowConsumed == \E k \in 1..(pos - 1) : k <= Len(stream) /\ stream[k].type = "throw"

\* C29 (as claimed): in triage mode the single result is counted as Failed
\* exactly when the oracle's terminal message was error-flagged and as
\* Successful otherwise, and Successful + Failed = Processed.
C29_FailedIffErrorFlagged ==
    Summarized =>
        /\ summary.processed = 1
        /\ summary.successful + summary.failed = summary.processed
        /\ (summary.failed = 1) <=> termErr
        /\ (summary.successful = 1) <=> ~termErr

\* C29 (amended): in triage mode the single result is counted as Failed
\* exactly when the dispatcher ended in Failed, which is when the oracle's
\* terminal message was error-flagged or the oracle's stream raised an error,
\* and as Successful otherwise; Successful + Failed = Processed whatever text
\* the oracle returned as its result.
C29_SummaryAgreesWithOutcome ==
    Summarized =>
        /\ summary.processed = 1
        /\ summary.successful + summary.failed = summary.processed
        /\ (summary.failed = 1) <=> caught
        /\ (summary.successful = 1) <=> ~caught
        /\ caught <=> (termErr \/ ThrowConsumed)

C29_Witness ==
    /\ Summarized
    /\ ~caught
    /\ analysis.suggestedFix = <<"fixed the failed Error check">>
    /\ summary.successful = 1
    /\ summary.failed = 0

\* C30: in analyze and triage modes every branch name given on the command
\* line is itself the target branch that is scanned and remediated, with no
\* default-branch lookup; the lookup happens only when no branch is given.
C30_GivenBranchIsTarget ==
    /\ (Calls("getDefaultBranch") > 0) => (args.branch = Empty)
    /\ (options.mode \in {"analyze", "triage"} /\ args.branch # Empty) =>
          /\ Calls("getDefaultBranch") = 0
          /\ branches = << args.branch >>
          /\ (failure # NoFailure) => (failure.branch = args.branch)

-----------------------------------------------------------------------------
(* Properties of what a run without a failure record leaves alone *)

OracleOrPRCalls == Calls("execute") + PRStageCalls

\* C31: the oracle is invoked, and a PR or comment call is made, only in
\* analyze or triage mode and only when a failure record exists for the target
\* branch; list mode, a target branch without a failing run and a target branch
\* whose detector call failed end with no oracle invocation and no PR call.
C31_NoRecordNoOracleNoPR ==
    /\ (OracleOrPRCalls > 0 \/ prCalls # <<>>) =>
          /\ options.mode \in {"analyze", "triage"}
          /\ failure # NoFailure
          /\ failure.branch = branches[1]
          /\ RecordsOf(branches[1]) # {}
          /\ latest[branches[1]] \in ReportedConclusions
    /\ (options.mode = "list") => (OracleOrPRCalls = 0 /\ prCalls = <<>>)
    /\ (options.mode \in {"analyze", "triage"} /\ ScanDone /\ branches # <<>>
            /\ latest[branches[1]] \notin ReportedConclusions) =>
          /\ OracleOrPRCalls = 0
          /\ prCalls = <<>>
          /\ pc \in {"scan", "done"}
          /\ (pc = "done") => (exitCode = 0)

C31_Witness ==
    /\ options.mode = "triage"
    /\ pc = "done"
    /\ exitCode = 0
    /\ branches = << <<"main">> >>
    /\ latest[<<"main">>] = "error"
    /\ Calls("getLatestFailedRun") = 1
    /\ OracleOrPRCalls = 0

-----------------------------------------------------------------------------
(* Termination of the scan: main up to the end of the scan.  Every detector *)
(* call that was started returns and main runs on when Promise.all          *)
(* resolves: weak fairness of the steps of the scan.                        *)

NextScan ==
    \/ Start
    \/ ListBranchesReturn
    \/ GetDefaultBranchReturn
    \/ StartBatch
    \/ \E k \in 1..Len(branches) : DetectReturn(k)
    \/ AfterScan
SpecScan ==
    /\ Init
    /\ [][NextScan]_vars
    /\ WF_vars(StartBatch)
    /\ \A k \in 1..(MaxBranches + 1) : WF_vars(DetectReturn(k))

StartedBranches == { k \in 1..Len(branches) : Started(k) }

\* C32: when every detector call returns, the scan ends, and it ends with
\* every candidate branch passed to the detector exactly once: the number of
\* detector calls is the number of branches started, no branch is skipped and
\* none is asked twice, also when the number of branches is not a multiple
\* of 3.
C32_ScanTerminatesOncePerBranch ==
    /\ [](Calls("getLatestFailedRun") = Cardinality(StartedBranches))
    /\ [](ScanDone =>
            /\ Calls("getLatestFailedRun") = Len(branches)
            /\ \A k \in 1..Len(branches) : Returned(k))
    /\ (pc = "scan") ~> ScanDone

C32_Witness ==
    /\ ScanDone
    /\ Len(branches) = 4
    /\ Calls("getLatestFailedRun") = 4
    /\ \A k \in 1..4 : Returned(k)

-----------------------------------------------------------------------------
(* Order of the failure collection *)

IndexOf(b) == CHOOSE k \in 1..Len(branches) : branches[k] = b

\* C33: in the failure collection every record of a branch of one batch
\* precedes every record of a branch of a later batch, whatever the order in
\* which the detector calls return; within a batch the records are in the
\* order of return; the report of list mode prints them in that order.
C33_RecordsOrderedByBatch ==
    /\ \A a \in 1..Len(failures), b \in 1..Len(failures) :
          (a < b) =>
              BatchOf(IndexOf(failures[a].branch)) <= BatchOf(IndexOf(failures[b].branch))
    /\ (report # <<>>) =>
          /\ Len(report) = Len(failures)
          /\ \A k \in 1..Len(report) : report[k] = failures[k].branch

C33_Witness ==
    /\ options.mode = "list"
    /\ pc = "done"
    /\ Len(branches) = 4
    /\ Len(report) = 4
    /\ failures[1].branch = branches[3]
    /\ failures[2].branch = branches[1]
    /\ failures[3].branch = branches[2]
    /\ failures[4].branch = branches[4]

====
